---- MODULE Spec2Model ----
(***************************************************************************)
(* Model of airflow/example_dags/example_params_ui_tutorial.py: the DAG's  *)
(* declared params, the trigger that turns a supplied configuration into   *)
(* DagRun.conf, and the task show_params that prints it or skips.          *)
(*                                                                         *)
(* Values are JSON values, tagged by type.  A text is a sequence of        *)
(* chunks: a chunk is a run of plain printable ASCII characters, or one    *)
(* character that json.dumps escapes.                                      *)
(***************************************************************************)
EXTENDS Integers, Sequences, FiniteSets, TLC

VARIABLES today, params, request, dag_run, ti, events, last

vars == <<today, params, request, dag_run, ti, events, last>>

\* ---------------------------------------------------------------- bounds
\* Days on which the DAG file may be parsed (datetime.date.today()).
MaxDay == 2
\* Keys in one supplied configuration.
MaxKeys == 2
\* Executions of show_params for one DagRun (the task can be cleared).
MaxTries == 2

\* ---------------------------------------------------------------- values
None == [type |-> "null"]
PyBool(b) == [type |-> "boolean", bool |-> b]
PyInt(n) == [type |-> "integer", int |-> n]
PyStr(s) == [type |-> "string", str |-> s]
PyList(xs) == [type |-> "array", items |-> xs]
\* A dict keeps insertion order: a sequence of <<key text, value>>.
PyDict(kvs) == [type |-> "object", pairs |-> kvs]

\* One non-ASCII character (U+00E9), named since a chunk is ASCII.
EAcute == "U+00E9"

CharLen(c) == IF c = EAcute THEN 1 ELSE Len(c)

RECURSIVE StrLen(_)
\* len() of a text.
StrLen(s) == IF s = <<>> THEN 0 ELSE CharLen(Head(s)) + StrLen(Tail(s))

\* A text of n characters.
Text(n) == [i \in 1..n |-> "x"]

Keys(d) == {d.pairs[i][1] : i \in DOMAIN d.pairs}

HasKey(d, k) == d.type = "object" /\ k \in Keys(d)

Get(d, k) == d.pairs[CHOOSE i \in DOMAIN d.pairs : d.pairs[i][1] = k][2]

\* Python truth value of a JSON value: None, False, 0, "", [] and {} are false.
Truthy(v) ==
    CASE v.type = "null" -> FALSE
      [] v.type = "boolean" -> v.bool
      [] v.type = "integer" -> v.int # 0
      [] v.type = "string" -> v.str # <<>>
      [] v.type = "array" -> v.items # <<>>
      [] v.type = "object" -> v.pairs # <<>>

\* ------------------------------------------------------------ json.dumps
\* json.encoder.ESCAPE_ASCII / ESCAPE_DCT: what one character becomes.
EscapeChar(c) ==
    CASE c = "\"" -> <<"\\", "\"">>
      [] c = "\\" -> <<"\\", "\\">>
      [] c = "\n" -> <<"\\", "n">>
      [] c = EAcute -> <<"\\", "u00e9">>
      [] OTHER -> <<c>>

RECURSIVE Escape(_)
Escape(s) == IF s = <<>> THEN <<>> ELSE EscapeChar(Head(s)) \o Escape(Tail(s))

\* json.encoder.encode_basestring_ascii
EncodeString(s) == <<"\"">> \o Escape(s) \o <<"\"">>

\* "\n" + indent * level, with indent = 4 spaces
NewlineIndent(level) == <<"\n">> \o [i \in 1..level |-> "    "]

RECURSIVE JsonDumps(_, _)
RECURSIVE EncodeItems(_, _, _)
RECURSIVE EncodePairs(_, _, _)
\* The elements of a list from index i on, each on its own line.
EncodeItems(xs, i, level) ==
    IF i > Len(xs) THEN <<>>
    ELSE (IF i = 1 THEN <<>> ELSE <<",">>) \o NewlineIndent(level)
         \o JsonDumps(xs[i], level) \o EncodeItems(xs, i + 1, level)

\* The items of a dict from index i on, each on its own line.
EncodePairs(kvs, i, level) ==
    IF i > Len(kvs) THEN <<>>
    ELSE (IF i = 1 THEN <<>> ELSE <<",">>) \o NewlineIndent(level)
         \o EncodeString(kvs[i][1]) \o <<": ">> \o JsonDumps(kvs[i][2], level)
         \o EncodePairs(kvs, i + 1, level)

\* json.dumps(v, indent=4) for a value nested `level` deep.
JsonDumps(v, level) ==
    CASE v.type = "null" -> <<"null">>
      [] v.type = "boolean" -> IF v.bool THEN <<"true">> ELSE <<"false">>
      [] v.type = "integer" -> <<ToString(v.int)>>
      [] v.type = "string" -> EncodeString(v.str)
      [] v.type = "array" ->
            IF v.items = <<>> THEN <<"[]">>
            ELSE <<"[">> \o EncodeItems(v.items, 1, level + 1)
                 \o NewlineIndent(level) \o <<"]">>
      [] v.type = "object" ->
            IF v.pairs = <<>> THEN <<"{}">>
            ELSE <<"{">> \o EncodePairs(v.pairs, 1, level + 1)
                 \o NewlineIndent(level) \o <<"}">>

\* ------------------------------------------------- Param and its schema
\* airflow.models.param.Param(default, **schema).  A schema is a record of
\* JSON-schema keywords; "type" is the list of permitted types.
Param(default, schema) == [value |-> default, schema |-> schema]

\* A bare dict value is wrapped as Param(value): no keyword at all.
NoSchema == <<>>

\* str(datetime.date.today()) on day d of the model's calendar.
IsoDate(d) == "2022-03-" \o (IF d < 10 THEN "0" ELSE "") \o ToString(d)

Days == 1..MaxDay

\* The clock times the model knows as well-formed "HH:MM:SS".
ClockTimes == {"12:13:14", "12:17:00"}

\* jsonschema's type check; a boolean is no integer, an integer is a number.
IsType(v, t) ==
    \/ v.type = t
    \/ t = "number" /\ v.type = "integer"

\* jsonschema.FormatChecker on a string, over the model's calendar and clock.
FormatOk(format, s) ==
    CASE format = "date" -> \E d \in Days : s = <<IsoDate(d)>>
      [] format = "time" -> \E t \in ClockTimes : s = <<t>>
      [] format = "date-time" ->
            \E d \in Days, t \in ClockTimes : s = <<IsoDate(d) \o "T" \o t \o "+00:00">>
      [] OTHER -> TRUE

\* jsonschema.validate(v, schema, format_checker=FormatChecker()) succeeds.
Validate(schema, v) ==
    LET kw == DOMAIN schema IN
    /\ "type" \in kw => \E i \in DOMAIN schema.type : IsType(v, schema.type[i])
    /\ "enum" \in kw => v \in schema.enum
    /\ "const" \in kw => v = schema.const
    /\ ("minimum" \in kw /\ v.type = "integer") => v.int >= schema.minimum
    /\ ("maximum" \in kw /\ v.type = "integer") => v.int <= schema.maximum
    /\ ("minLength" \in kw /\ v.type = "string") => StrLen(v.str) >= schema.minLength
    /\ ("maxLength" \in kw /\ v.type = "string") => StrLen(v.str) <= schema.maxLength
    /\ ("format" \in kw /\ v.type = "string") => FormatOk(schema.format, v.str)

\* Param.resolve(value) does not raise ParamValidationError.
ParamResolve(param, v) == Validate(param.schema, v)

\* What the description of checked_text tells the user of the form.
CheckedTextDescribedMin == 10
CheckedTextDescribedMax == 30

\* The params dict of the file, as evaluated when parsed on day d.
ParamsDecl(d) ==
    (<<"x">> :> Param(PyInt(3), NoSchema))
    @@ (<<"text">> :> Param(PyStr(<<"Hello World!">>), NoSchema))
    @@ (<<"flag">> :> Param(PyBool(FALSE), NoSchema))
    @@ (<<"a_simple_list">> :>
          Param(PyList(<<PyStr(<<"one">>), PyStr(<<"two">>), PyStr(<<"three">>),
                         PyStr(<<"actually one value is made per line">>)>>),
                NoSchema))
    @@ (<<"most_loved_number">> :> Param(PyInt(42), [type |-> <<"integer">>]))
    @@ (<<"pick_one">> :>
          Param(PyStr(<<"value 42">>),
                [type |-> <<"string">>,
                 enum |-> {PyStr(<<"value " \o ToString(i)>>) : i \in 16..63}]))
    @@ (<<"bool">> :> Param(PyBool(TRUE), [type |-> <<"boolean">>]))
    @@ (<<"date_time">> :>
          Param(PyStr(<<IsoDate(d) \o "T" \o "12:17:00" \o "+00:00">>),
                [type |-> <<"string">>, format |-> "date-time"]))
    @@ (<<"date">> :>
          Param(PyStr(<<IsoDate(d)>>), [type |-> <<"string">>, format |-> "date"]))
    @@ (<<"time">> :>
          Param(PyStr(<<"12:13:14">>),
                [type |-> <<"string", "null">>, format |-> "time"]))
    @@ (<<"required_field">> :>
          Param(PyStr(<<"You can not trigger if no text is given here!">>),
                [type |-> <<"string">>]))
    @@ (<<"optional_field">> :>
          Param(PyStr(<<"optional text, you can trigger also w/o text">>),
                [type |-> <<"null", "string">>]))
    @@ (<<"checked_text">> :>
          Param(PyStr(<<"length-checked-field">>),
                [type |-> <<"string">>, minLength |-> 10, maxLength |-> 20]))
    @@ (<<"checked_number">> :>
          Param(PyInt(100), [type |-> <<"number">>, minimum |-> 64, maximum |-> 128]))
    @@ (<<"object">> :>
          Param(PyDict(<< <<(<<"key">>), PyStr(<<"value">>)>> >>),
                [type |-> <<"object", "null">>]))
    @@ (<<"hidden_secret_field">> :>
          Param(PyStr(<<"constant value">>), [const |-> PyStr(<<"constant value">>)]))
    @@ (<<"color_picker">> :> Param(PyStr(<<"#FF8800">>), [type |-> <<"string">>]))

\* A default outside its enum: range(16, 64) stops at 63.
DagParams_DefaultOutsideEnum(d) ==
    [ParamsDecl(d) EXCEPT ![<<"pick_one">>].value = PyStr(<<"value 64">>)]

\* hidden_secret_field declared without const.
DagParams_NoConst(d) ==
    [ParamsDecl(d) EXCEPT ![<<"hidden_secret_field">>].schema = NoSchema]

\* optional_field declared with type "string" alone.
DagParams_OptionalNotNullable(d) ==
    [ParamsDecl(d) EXCEPT ![<<"optional_field">>].schema = [type |-> <<"string">>]]

\* DAG(params=...).params on day d.
DagParams(d) == ParamsDecl(d)

\* ------------------------------------------------------------ the trigger
\* The value a run gets for a declared param: the supplied one, else the default.
Resolved(ps, supplied, name) ==
    IF HasKey(supplied, name) THEN Get(supplied, name) ELSE ps[name].value

\* ParamsDict.update(conf or {}) then ParamsDict.validate() does not raise.
ParamsValidate(ps, supplied) ==
    \A name \in DOMAIN ps : ParamResolve(ps[name], Resolved(ps, supplied, name))

\* A key the DAG does not declare, with characters json.dumps escapes.
OddKey == <<"n", "\"", EAcute>>

\* The keys a trigger may supply, in the order it supplies them.
KeyOrder ==
    << <<"x">>, <<"text">>, <<"flag">>, <<"a_simple_list">>, <<"time">>,
       <<"required_field">>, <<"optional_field">>, <<"checked_text">>,
       <<"object">>, <<"hidden_secret_field">>, OddKey >>

\* Lengths of the texts tried for checked_text, around each stated limit.
TextLengths == {0, 9, 10, 20, 21, 30, 31}

\* The values a trigger may supply for a key.
ValuesFor(k) ==
    CASE k = <<"x">> -> {None, PyInt(0)}
      [] k = <<"text">> -> {None, PyStr(<<>>)}
      [] k = <<"flag">> -> {None, PyBool(TRUE)}
      [] k = <<"a_simple_list">> -> {None, PyList(<<PyStr(<<"one">>), PyInt(2)>>)}
      [] k = <<"time">> -> {None, PyStr(<<"12:17:00">>)}
      [] k = <<"required_field">> -> {None, PyStr(<<"some text">>)}
      [] k = <<"optional_field">> -> {None, PyStr(<<"some text">>)}
      [] k = <<"checked_text">> -> {PyStr(Text(n)) : n \in TextLengths}
      [] k = <<"object">> ->
            {None, PyDict(<<>>),
             PyDict(<< <<(<<"key">>), PyList(<<>>)>>, <<OddKey, PyInt(-5)>> >>)}
      [] k = <<"hidden_secret_field">> ->
            {None, PyStr(<<"constant value">>), PyStr(<<"another value">>)}
      [] k = OddKey -> {PyStr(<<"a", "\\", "b", "\n", EAcute, "\"">>), PyBool(FALSE)}

RECURSIVE PairSeqs(_, _)
\* The dicts of at most n items whose keys are KeyOrder[from..], in that order.
PairSeqs(from, n) ==
    IF n = 0 \/ from > Len(KeyOrder) THEN {<<>>}
    ELSE PairSeqs(from + 1, n)
         \cup {<< <<KeyOrder[from], v>> >> \o rest :
                 v \in ValuesFor(KeyOrder[from]), rest \in PairSeqs(from + 1, n - 1)}

\* The configurations a trigger may supply: none at all, {} or a dict.
Supplied == {None} \cup {PyDict(kvs) : kvs \in PairSeqs(1, MaxKeys)}

NoRequest == [status |-> "none"]
NoDagRun == [state |-> "none"]
NoResult == [state |-> "none"]

\* --------------------------------------------------------------- the task
Diagnostic == <<"Uups, no parameters supplied as DagRun.conf, was the trigger w/o form?">>

Heading == <<"This DAG was triggered with the following parameters:", "\n">>

PrintEvent(text) == [op |-> "print", text |-> text]

RaiseEvent(exc, text) == [op |-> "raise", exc |-> exc, text |-> text]

\* `if dag_run.conf is None` in place of `if not dag_run.conf`.
show_params_SkipsOnlyNone(kwargs) ==
    LET dr == kwargs.ti.dag_run IN
    IF dr.conf = None
    THEN <<PrintEvent(Diagnostic),
           RaiseEvent("AirflowSkipException", <<"No DagRun.conf parameters supplied.">>)>>
    ELSE <<PrintEvent(Heading \o JsonDumps(dr.conf, 0))>>

\* The f-string without its placeholder.
show_params_HeadingOnly(kwargs) ==
    LET dr == kwargs.ti.dag_run IN
    IF ~Truthy(dr.conf)
    THEN <<PrintEvent(Diagnostic),
           RaiseEvent("AirflowSkipException", <<"No DagRun.conf parameters supplied.">>)>>
    ELSE <<PrintEvent(Heading)>>

\* AirflowException raised in place of AirflowSkipException.
show_params_RaisesError(kwargs) ==
    LET dr == kwargs.ti.dag_run IN
    IF ~Truthy(dr.conf)
    THEN <<PrintEvent(Diagnostic),
           RaiseEvent("AirflowException", <<"No DagRun.conf parameters supplied.">>)>>
    ELSE <<PrintEvent(Heading \o JsonDumps(dr.conf, 0))>>

\* The raise forgotten: the skip path falls through to the second print.
show_params_NoRaise(kwargs) ==
    LET dr == kwargs.ti.dag_run IN
    IF ~Truthy(dr.conf)
    THEN <<PrintEvent(Diagnostic), PrintEvent(Heading \o JsonDumps(dr.conf, 0))>>
    ELSE <<PrintEvent(Heading \o JsonDumps(dr.conf, 0))>>

\* The date param printed beside the configuration.
show_params_PrintsParams(kwargs) ==
    LET dr == kwargs.ti.dag_run IN
    IF ~Truthy(dr.conf)
    THEN <<PrintEvent(Diagnostic),
           RaiseEvent("AirflowSkipException", <<"No DagRun.conf parameters supplied.">>)>>
    ELSE <<PrintEvent(Heading \o JsonDumps(dr.conf, 0)
                      \o JsonDumps(kwargs.params[<<"date">>].value, 0))>>

\* The body of show_params(**kwargs): what it prints and raises, in order.
show_params(kwargs) ==
    LET dr == kwargs.ti.dag_run IN
    IF ~Truthy(dr.conf)
    THEN <<PrintEvent(Diagnostic),
           RaiseEvent("AirflowSkipException", <<"No DagRun.conf parameters supplied.">>)>>
    ELSE <<PrintEvent(Heading \o JsonDumps(dr.conf, 0))>>

\* The task declares no retries.
TaskRetries == 0

\* The state the task runner gives a task instance whose callable did `effects`.
TaskOutcome(effects, try_number) ==
    LET raised == SelectSeq(effects, LAMBDA e : e.op = "raise") IN
    IF raised = <<>> THEN "success"
    ELSE IF raised[1].exc = "AirflowSkipException" THEN "skipped"
    ELSE IF try_number <= TaskRetries THEN "up_for_retry"
    ELSE "failed"

\* The context the task runner passes to the callable.
Context == [ti |-> [dag_run |-> dag_run, try_number |-> ti.try_number],
            params |-> params]

Finished == {"success", "skipped", "failed"}

\* The texts printed by the execution, in order.
Stdout == [i \in DOMAIN SelectSeq(events, LAMBDA e : e.op = "print") |->
             SelectSeq(events, LAMBDA e : e.op = "print")[i].text]

\* ---------------------------------------------------------------- actions
Init ==
    /\ today = 1
    /\ params = DagParams(1)
    /\ request = NoRequest
    /\ dag_run = NoDagRun
    /\ ti = [state |-> "none", try_number |-> 0]
    /\ events = <<>>
    /\ last = NoResult

\* The scheduler parses the DAG file again on a later day.
Parse ==
    /\ today < MaxDay
    /\ today' = today + 1
    /\ params' = DagParams(today + 1)
    /\ UNCHANGED <<request, dag_run, ti, events, last>>

\* A user or caller triggers the DAG with `supplied` as configuration.
Trigger(supplied) ==
    /\ request = NoRequest
    /\ IF ParamsValidate(params, supplied)
       THEN /\ request' = [status |-> "accepted", conf |-> supplied]
            /\ dag_run' = [state |-> "running", conf |-> supplied]
            /\ ti' = [state |-> "queued", try_number |-> 0]
       ELSE /\ request' = [status |-> "rejected", conf |-> supplied]
            /\ UNCHANGED <<dag_run, ti>>
    /\ UNCHANGED <<today, params, events, last>>

\* The executor starts the queued task instance.
Start ==
    /\ ti.state \in {"queued", "up_for_retry"}
    /\ ti' = [state |-> "running", try_number |-> ti.try_number + 1]
    /\ events' = <<>>
    /\ UNCHANGED <<today, params, request, dag_run, last>>

\* The task empties the configuration it was given (dag_run.conf.clear()).
Execute_ClearsConf ==
    /\ ti.state = "running"
    /\ events' = show_params(Context)
    /\ ti' = [ti EXCEPT !.state = TaskOutcome(events', ti.try_number)]
    /\ dag_run' = [dag_run EXCEPT !.conf = IF @.type = "object" THEN PyDict(<<>>) ELSE @]
    /\ UNCHANGED <<today, params, request, last>>

\* The task show_params runs to its end.
Execute ==
    /\ ti.state = "running"
    /\ events' = show_params(Context)
    /\ ti' = [ti EXCEPT !.state = TaskOutcome(events', ti.try_number)]
    /\ UNCHANGED <<today, params, request, dag_run, last>>

\* A user clears the finished task instance, so that it runs again.
Clear ==
    /\ ti.state \in Finished
    /\ ti.try_number < MaxTries
    /\ last' = [state |-> ti.state, events |-> events]
    /\ ti' = [ti EXCEPT !.state = "queued"]
    /\ UNCHANGED <<today, params, request, dag_run, events>>

Next ==
    \/ Parse
    \/ \E supplied \in Supplied : Trigger(supplied)
    \/ Start
    \/ Execute
    \/ Clear

Spec == Init /\ [][Next]_vars

\* ------------------------------------------------------------ properties
\* sub occurs in text as a run of consecutive chunks.
Contains(text, sub) ==
    \E i \in 0..(Len(text) - Len(sub)) : SubSeq(text, i + 1, i + Len(sub)) = sub

\* The task instance has run show_params to its end.
Executed == ti.state \in Finished \cup {"up_for_retry"}

Conf == dag_run.conf

EmptyConf == Conf = None \/ Conf = PyDict(<<>>)

Raised(exc) == \E i \in DOMAIN events : events[i].op = "raise" /\ events[i].exc = exc

RaisedAny == \E i \in DOMAIN events : events[i].op = "raise"

\* Chunks that json.dumps writes as they are.
Plain(s) == \A i \in DOMAIN s : EscapeChar(s[i]) = <<s[i]>>

\* C1: an execution with an absent (None) or empty ({}) configuration prints
\* the diagnostic, raises the skip signal and ends skipped, never failed and
\* never success.
C1_EmptyConfSkips ==
    (Executed /\ EmptyConf) =>
        /\ \E i \in DOMAIN Stdout : Stdout[i] = Diagnostic
        /\ Raised("AirflowSkipException")
        /\ ti.state = "skipped"

C1_Witness == Executed /\ Conf = None /\ ti.state = "skipped"

\* C2: an execution with a non-empty configuration raises no skip, ends in
\* success and prints one text; that text holds, for every key, the key as
\* json.dumps writes it, ": " and the key's value as json.dumps writes it (a
\* key or string value of plain characters appears as it is).
C2_NonEmptyConfPrinted ==
    (Executed /\ ~EmptyConf) =>
        /\ ~RaisedAny
        /\ ti.state = "success"
        /\ Len(Stdout) = 1
        /\ \A i \in DOMAIN Conf.pairs :
             LET k == Conf.pairs[i][1]
                 v == Conf.pairs[i][2]
             IN /\ Contains(Stdout[1], EncodeString(k) \o <<": ">> \o JsonDumps(v, 1))
                /\ Plain(k) => Contains(Stdout[1], k)
                /\ (v.type = "string" /\ Plain(v.str)) => Contains(Stdout[1], v.str)
                /\ v.type = "integer" => Contains(Stdout[1], <<ToString(v.int)>>)

C2_Witness ==
    /\ Executed
    /\ ~EmptyConf
    /\ Len(Conf.pairs) = 2
    /\ Conf.pairs[2][1] = OddKey
    /\ Conf.pairs[2][2].type = "string"
    /\ ti.state = "success"

\* C3: the default of every declared param meets the param's own constraints:
\* its type, minimum and maximum for checked_number, minLength and maxLength
\* for checked_text, the enum for pick_one, the const for hidden_secret_field.
C3_DefaultsMeetConstraints ==
    /\ \A name \in DOMAIN params :
         LET p == params[name] IN
         /\ "type" \in DOMAIN p.schema =>
              \E i \in DOMAIN p.schema.type : IsType(p.value, p.schema.type[i])
         /\ ParamResolve(p, p.value)
    /\ LET p == params[<<"checked_number">>] IN
         p.schema.minimum <= p.value.int /\ p.value.int <= p.schema.maximum
    /\ LET p == params[<<"checked_text">>] IN
         /\ p.schema.minLength <= StrLen(p.value.str)
         /\ StrLen(p.value.str) <= p.schema.maxLength
    /\ LET p == params[<<"pick_one">>] IN p.value \in p.schema.enum
    /\ LET p == params[<<"hidden_secret_field">>] IN p.value = p.schema.const

C3_Witness ==
    /\ today = 2
    /\ params[<<"date">>].value = PyStr(<<"2022-03-02">>)
    /\ StrLen(params[<<"checked_text">>].value.str) = 20

\* C4: whatever the configuration, an execution ends in success or skipped;
\* the task instance is never failed and never up for retry.
C4_SuccessOrSkipped ==
    /\ ti.state \notin {"failed", "up_for_retry"}
    /\ Executed => ti.state \in {"success", "skipped"}

C4_Witness == Executed /\ Conf = PyDict(<<>>) /\ ti.state = "skipped"

\* C5: the step that executes show_params changes the printed output and the
\* task instance's state, and leaves the run's configuration, the declared
\* params and all else as they were.
C5_ExecutionFrame ==
    [][(ti.state = "running" /\ ti'.state # "running") =>
          /\ dag_run' = dag_run
          /\ params' = params
          /\ today' = today
          /\ request' = request
          /\ last' = last
          /\ ti'.try_number = ti.try_number]_vars

C5_Witness ==
    /\ Executed
    /\ ti.try_number = 2
    /\ ~EmptyConf
    /\ Conf = request.conf
    /\ params = DagParams(today)

\* A trigger that supplies checked_text alone, as a string.
OnlyCheckedText ==
    /\ request # NoRequest
    /\ request.conf.type = "object"
    /\ Len(request.conf.pairs) = 1
    /\ request.conf.pairs[1][1] = <<"checked_text">>
    /\ request.conf.pairs[1][2].type = "string"

\* C6: checked_text accepts a string exactly when its length is between 10
\* and 30, as its description says.
C6_CheckedTextAsDescribed ==
    OnlyCheckedText =>
        LET n == StrLen(request.conf.pairs[1][2].str) IN
        request.status = "accepted"
            <=> (CheckedTextDescribedMin <= n /\ n <= CheckedTextDescribedMax)

HiddenConst == PyStr(<<"constant value">>)

OnlyNull ==
    /\ request # NoRequest
    /\ request.conf.type = "object"
    /\ Len(request.conf.pairs) = 1
    /\ request.conf.pairs[1][2] = None

NullableKeys ==
    {<<"optional_field">>, <<"time">>, <<"object">>,
     <<"x">>, <<"text">>, <<"flag">>, <<"a_simple_list">>}

\* C8: a typed param accepts null exactly when its type list has "null": a
\* trigger supplying null is rejected for required_field and accepted for
\* optional_field, time, object and the bare-value params x, text, flag and
\* a_simple_list.
C8_NullOnlyWhereTypePermits ==
    /\ \A name \in DOMAIN params :
         "type" \in DOMAIN params[name].schema =>
            (ParamResolve(params[name], None)
               <=> \E i \in DOMAIN params[name].schema.type :
                      params[name].schema.type[i] = "null")
    /\ \A name \in NullableKeys : ParamResolve(params[name], None)
    /\ ~ParamResolve(params[<<"required_field">>], None)
    /\ OnlyNull =>
         /\ request.conf.pairs[1][1] = <<"required_field">> => request.status = "rejected"
         /\ request.conf.pairs[1][1] \in NullableKeys => request.status = "accepted"

C8_Witness ==
    /\ OnlyNull
    /\ request.conf.pairs[1][1] = <<"required_field">>
    /\ request.status = "rejected"

\* C9: an execution prints exactly one text.  On the skip path that text is
\* the diagnostic, printed before the skip is raised, and the parameters are
\* not printed; on the print path the diagnostic is not printed and nothing
\* is raised.
C9_OneMessagePerPath ==
    Executed =>
        /\ Len(Stdout) = 1
        /\ EmptyConf =>
             /\ Len(events) = 2
             /\ events[1] = PrintEvent(Diagnostic)
             /\ events[2].op = "raise"
             /\ events[2].exc = "AirflowSkipException"
             /\ \A i \in DOMAIN Stdout : ~Contains(Stdout[i], Heading)
        /\ ~EmptyConf =>
             /\ ~RaisedAny
             /\ Contains(Stdout[1], Heading)
             /\ \A i \in DOMAIN Stdout : ~Contains(Stdout[i], Diagnostic)

C9_Witness ==
    /\ Executed
    /\ Conf = PyDict(<<>>)
    /\ Len(events) = 2
    /\ events[2].op = "raise"

\* C10: a running execution ends in one step, and two executions with the
\* same configuration end in the same state with the same output, whatever
\* the day, the declared params and the try number.
C10_OneStepSameResult ==
    [][(ti.state = "running" /\ ti' # ti) =>
          /\ ti'.state \in {"success", "skipped"}
          /\ last # NoResult => last = [state |-> ti'.state, events |-> events']]_vars

C10_Witness ==
    /\ Executed
    /\ ti.try_number = 2
    /\ last = [state |-> ti.state, events |-> events]
    /\ today = 2
    /\ ti.state = "success"

====
